---- MODULE Spec2Model ----
(***************************************************************************)
(* Moderation-state reconciliation and live-update subsystem of the        *)
(* HaterAide front end:                                                    *)
(*   - WebSocketService (services/websocket.ts): the shared push channel,  *)
(*   - HaterAideAnalysis (App.tsx): the Live / Preloaded decision store    *)
(*     and its resolver getReplyModerationInfo / shouldModerateContent,    *)
(*   - App (App.tsx): view switching and replyAnalysisResults,             *)
(*   - Reply (components/Reply.tsx): the per-reply decision.               *)
(* Everything runs on the browser's event loop: one action is one task     *)
(* (an event handler, a promise continuation, a timer callback) together   *)
(* with the renders and effects React runs for it.                         *)
(* The timestamp field of a ModerationAction is not modelled.              *)
(***************************************************************************)
EXTENDS Integers, Sequences, FiniteSets, TLC

\* ---------------------------------------------------------------- bounds
MaxSockets == 2
MaxAnalyses == 2
MaxInFlight == 2

\* ------------------------------------------------------------ JS helpers
\* null / undefined where an object is expected
Null == [null |-> TRUE]

\* a string that is missing (null, undefined)
Absent == "absent"

EmptyMap == [k \in {} |-> Null]

MapHas(m, k) == k \in DOMAIN m

MapGet(m, k) == IF k \in DOMAIN m THEN m[k] ELSE Null

MapSet(m, k, v) == [x \in (DOMAIN m) \cup {k} |-> IF x = k THEN v ELSE m[x]]

MapDelete(m, k) == [x \in (DOMAIN m) \ {k} |-> m[x]]

\* ------------------------------------------------------------ data model
ReplyIds == {"r1", "r2"}

ModerationAction(id, type, reason, sentiment) ==
    [reply_id |-> id, action_type |-> type, reason |-> reason,
     sentiment |-> sentiment, status |-> "applied"]

\* the replies of the mock posts: id, own sentiment label, hidden flag
ReplyData(id, sentiment, hidden) ==
    [id |-> id, sentiment |-> sentiment, hidden |-> hidden]

Posts ==
    { [id |-> "post1",
       replies |-> << ReplyData("r1", "harmful", FALSE),
                      ReplyData("r2", "friendly", TRUE) >>],
      [id |-> "post2",
       replies |-> << ReplyData("r1", "unfriendly", TRUE),
                      ReplyData("r2", "unknown", FALSE) >>] }

\* one element of reply_analyzer_results.reply_analyses; sentiment Absent is
\* an analysis_result without a sentiment; moderation_actions are the
\* backend's tool records
ToolAction == [tool_name |-> "blur_text_content"]

Analysis(id, sentiment, acts) ==
    [reply_id |-> id, sentiment |-> sentiment, moderation_actions |-> acts]

\* reply_analyzer_results objects
Results(analyses) == [reply_analyses |-> analyses]

\* the reply_analyzer_results the static file /reply_analyzer_results.json
\* and the analysis endpoint can hold
FilePayloads ==
    { Results(<< Analysis("r1", "harmful", << ToolAction >>),
                 Analysis("r2", "unfriendly", << >>) >>),
      Results(<< Analysis("r1", "friendly", << >>),
                 Analysis("r2", Absent,
                     << ModerationAction("r2", "blur", "Tool decision", "unfriendly") >>) >>),
      Results(<< >>) }

\* every reply_analyses list of at most MaxAnalyses entries
AnalysisEntries ==
    { Analysis(id, s, << >>) : id \in ReplyIds, s \in {"harmful", "unfriendly", "friendly", Absent} }

SeqsUpTo(S, n) == UNION { [1..k -> S] : k \in 0..n }

AllPayloads == { Results(a) : a \in SeqsUpTo(AnalysisEntries, MaxAnalyses) }

\* the actions the backend pushes over the channel
PushActions ==
    { ModerationAction(id, "hide", "Flagged by moderator", "harmful") : id \in ReplyIds }
    \cup { ModerationAction(id, "blur", "", "unfriendly") : id \in ReplyIds }

\* bodies of GET /api/moderation-status
SnapshotAction == ModerationAction("r2", "hide", "Applied earlier", "harmful")

SnapshotBodies ==
    { [status |-> "ok"],
      [status |-> "ok", moderation_actions |-> EmptyMap],
      [status |-> "ok", moderation_actions |-> MapSet(EmptyMap, "r2", SnapshotAction)] }

\* what arrives in event.data: text that JSON.parse rejects, or the text of
\* a JSON object
Garbage == [text |-> "garbage"]

Json(v) == [text |-> "json", value |-> v]

\* conforming updates: the typed envelope with one moderation action
ValidMessages ==
    { Json([type |-> "content_moderation", action |-> a]) : a \in PushActions }

\* text that does not parse, and an envelope of another type
NonConforming == { Garbage, Json([type |-> "ping"]) }

\* content_moderation envelopes without an action, and with an action that
\* has no reply_id
Malformed ==
    { Json([type |-> "content_moderation"]),
      Json([type |-> "content_moderation",
            action |-> [action_type |-> "hide", reason |-> "no id"]]) }

WireMessages == ValidMessages \cup NonConforming \cup Malformed

\* update.action.reply_id of an action object
ReplyIdOf(action) ==
    IF "reply_id" \in DOMAIN action THEN action.reply_id ELSE Absent

\* ------------------------------------------------------------- variables
VARIABLES
    wsService,               \* the WebSocketService singleton's fields
    browser,                 \* sockets created (readyState each), pending timeouts
    currentView,             \* App
    selectedPost,            \* App
    replyAnalysisResults,    \* App, prop of HaterAideAnalysis
    hasLoadedInitialAnalysis,\* App
    enableInFlight,          \* App: handleEnableHaterAide calls awaiting a response
    replyAnalysisData,       \* HaterAideAnalysis
    moderationActions,       \* HaterAideAnalysis: the Live mapping
    preloadedModerations,    \* HaterAideAnalysis: the Preloaded mapping
    statusFetch,             \* HaterAideAnalysis: GET /api/moderation-status
    loadFetch,               \* HaterAideAnalysis: loadAnalysisData
    reply,                   \* Reply: the reply prop (Null: not mounted)
    replyData,               \* Reply: the replyAnalysisData prop
    moderationAction,        \* Reply
    isContentRevealed,       \* Reply
    isMediaRevealed,         \* Reply
    disconnectCalled,        \* disconnect() was called and connect() has not
                             \* been called by a user of the channel since
    delivery                 \* what the task just run handed to the listeners
                             \* and to the socket

appVars == << currentView, selectedPost, replyAnalysisResults,
              hasLoadedInitialAnalysis, enableInFlight >>

viewVars == << replyAnalysisData, moderationActions, preloadedModerations,
               statusFetch, loadFetch >>

chanVars == << wsService, browser >>

replyVars == << reply, replyData, moderationAction, isContentRevealed,
                isMediaRevealed >>

vars == << wsService, browser, currentView, selectedPost, replyAnalysisResults,
           hasLoadedInitialAnalysis, enableInFlight, replyAnalysisData,
           moderationActions, preloadedModerations, statusFetch, loadFetch,
           reply, replyData, moderationAction, isContentRevealed,
           isMediaRevealed, disconnectCalled, delivery >>

\* ------------------------------------------------------ WebSocketService
\* w: the service's fields (ws is the held socket, 0 for null;
\* reconnectTimer is a timeout id, 0 for null); b: the browser's side.
\* b.sockets gives the readyState of each socket; a CLOSED socket fires no
\* further event, so its place is taken by the next socket constructed and
\* MaxSockets bounds the sockets alive at once. Every operation returns the
\* pair after the call.
SocketIds == 1..MaxSockets

FreeSockets(b) == { s \in SocketIds : b.sockets[s] = "CLOSED" }

\* new WebSocket(wsUrl)
NewSocket(b) == CHOOSE s \in FreeSockets(b) : \A t \in FreeSockets(b) : s <= t

Pair(w, b) == [w |-> w, b |-> b]

ReadyState(w, b) == IF w.ws = 0 THEN Absent ELSE b.sockets[w.ws]

\* private reconnectInterval: number = 5000
reconnectInterval == 5000

\* setTimeout's fresh id
NewTimerId(b) == CHOOSE i \in 1..(Cardinality(b.timers) + 1) : i \notin b.timers

\* setTimeout(callback, ms) under id t, clearTimeout(t); b.delay gives the
\* delay each pending timeout was set with
SetTimeout(b, t, ms) ==
    [b EXCEPT !.timers = @ \cup {t}, !.delay = MapSet(@, t, ms)]

ClearTimeout(b, t) ==
    [b EXCEPT !.timers = @ \ {t}, !.delay = MapDelete(@, t)]

clearReconnectTimer(w, b) ==
    IF w.reconnectTimer # 0
    THEN Pair([w EXCEPT !.reconnectTimer = 0], ClearTimeout(b, w.reconnectTimer))
    ELSE Pair(w, b)

\* a scheduleReconnect that does not cancel the pending timer
scheduleReconnectNoClear(w, b) ==
    LET t == NewTimerId(b)
    IN  Pair([w EXCEPT !.reconnectTimer = t], SetTimeout(b, t, reconnectInterval))

scheduleReconnect(w, b) ==
    LET c == clearReconnectTimer(w, b)
        t == NewTimerId(c.b)
    IN  Pair([c.w EXCEPT !.reconnectTimer = t],
             SetTimeout(c.b, t, reconnectInterval))

\* connect() returns at once: the socket is open or an attempt is in flight
connectIsNoop(w, b) == ReadyState(w, b) = "OPEN" \/ w.isConnecting

\* a connect whose catch branch gives up instead of scheduling a reconnect
connectGivesUp(w, b, throws) ==
    IF connectIsNoop(w, b) THEN Pair(w, b)
    ELSE IF throws
    THEN Pair([w EXCEPT !.isConnecting = FALSE], b)
    ELSE Pair([w EXCEPT !.isConnecting = TRUE, !.ws = NewSocket(b)],
              [b EXCEPT !.sockets[NewSocket(b)] = "CONNECTING"])

\* throws: the WebSocket constructor raises
connect(w, b, throws) ==
    IF connectIsNoop(w, b) THEN Pair(w, b)
    ELSE IF throws
    THEN scheduleReconnect([w EXCEPT !.isConnecting = FALSE], b)
    ELSE Pair([w EXCEPT !.isConnecting = TRUE, !.ws = NewSocket(b)],
              [b EXCEPT !.sockets[NewSocket(b)] = "CONNECTING"])

\* the model keeps at most MaxSockets sockets alive
CanConnect(w, b, throws) ==
    connectIsNoop(w, b) \/ throws \/ FreeSockets(b) # {}

\* an open handler that leaves the reconnect timer pending
onopenKeepsTimer(w, b) == Pair([w EXCEPT !.isConnecting = FALSE], b)

onopen(w, b) == clearReconnectTimer([w EXCEPT !.isConnecting = FALSE], b)

onerror(w, b) == Pair([w EXCEPT !.isConnecting = FALSE], b)

\* a close handler that schedules nothing
oncloseNoReconnect(w, b) == Pair([w EXCEPT !.isConnecting = FALSE], b)

onclose(w, b) == scheduleReconnect([w EXCEPT !.isConnecting = FALSE], b)

\* WebSocket.close(): a socket that is connecting or open starts closing
SocketCloseCall(b, s) ==
    IF b.sockets[s] \in {"CONNECTING", "OPEN"}
    THEN [b EXCEPT !.sockets[s] = "CLOSING"]
    ELSE b

\* a disconnect that leaves the registry as it is
disconnectKeepsListeners(w, b) ==
    LET c == clearReconnectTimer(w, b)
    IN  IF c.w.ws # 0
        THEN Pair([c.w EXCEPT !.ws = 0], SocketCloseCall(c.b, c.w.ws))
        ELSE c

disconnect(w, b) ==
    LET c == clearReconnectTimer(w, b)
    IN  IF c.w.ws # 0
        THEN Pair([c.w EXCEPT !.ws = 0, !.listeners = EmptyMap],
                  SocketCloseCall(c.b, c.w.ws))
        ELSE Pair([c.w EXCEPT !.listeners = EmptyMap], c.b)

\* a subscribe that keeps the callback an id already has
subscribeKeepsFirst(w, id, callback) ==
    IF MapHas(w.listeners, id) THEN w
    ELSE [w EXCEPT !.listeners = MapSet(@, id, callback)]

subscribe(w, id, callback) == [w EXCEPT !.listeners = MapSet(@, id, callback)]

\* an unsubscribe that lets go of the socket with the last subscriber
unsubscribeDropsSocket(w, id) ==
    IF MapDelete(w.listeners, id) = EmptyMap
    THEN [w EXCEPT !.listeners = EmptyMap, !.ws = 0]
    ELSE [w EXCEPT !.listeners = MapDelete(@, id)]

\* an unsubscribe that removes nothing
unsubscribeNoop(w, id) == w

unsubscribe(w, id) == [w EXCEPT !.listeners = MapDelete(@, id)]

\* Map.forEach visits the registry's entries one after the other; the
\* visiting order is the order of this sequence
RECURSIVE KeysOf(_)
KeysOf(m) ==
    IF DOMAIN m = {} THEN << >>
    ELSE LET k == CHOOSE x \in DOMAIN m : TRUE
         IN  << k >> \o KeysOf(MapDelete(m, k))

\* no listener called
NoCalls == [calls |-> EmptyMap, raised |-> {}, thrown |-> FALSE]

\* one more call of the callback registered under id
Called(d, id) == [d EXCEPT !.calls = MapSet(@, id, IF id \in DOMAIN @ THEN @[id] + 1 ELSE 1)]

\* a forEach whose body has no try: the first callback that raises ends it
RECURSIVE ForEachNoCatch(_, _, _)
ForEachNoCatch(ids, raising, d) ==
    IF ids = << >> THEN d
    ELSE IF Head(ids) \in raising
    THEN [Called(d, Head(ids)) EXCEPT !.raised = @ \cup {Head(ids)}, !.thrown = TRUE]
    ELSE ForEachNoCatch(Tail(ids), raising, Called(d, Head(ids)))

notifyListenersNoCatch(listeners, raising) ==
    ForEachNoCatch(KeysOf(listeners), raising, NoCalls)

\* the forEach of notifyListeners: each callback is called inside its own
\* try, an error it raises is caught and the loop goes on
RECURSIVE ForEach(_, _, _)
ForEach(ids, raising, d) ==
    IF ids = << >> THEN d
    ELSE IF Head(ids) \in raising
    THEN ForEach(Tail(ids), raising,
                 [Called(d, Head(ids)) EXCEPT !.raised = @ \cup {Head(ids)}])
    ELSE ForEach(Tail(ids), raising, Called(d, Head(ids)))

\* raising: the subscription ids whose callback raises on this update
notifyListeners(listeners, raising) ==
    ForEach(KeysOf(listeners), raising, NoCalls)

\* a filter that lets every message that parses through
AcceptedAnyJson(msg) == msg.text = "json"

\* onmessage's test: JSON.parse succeeds and data.type is content_moderation
Accepted(msg) == msg.text = "json" /\ msg.value.type = "content_moderation"

\* onmessage: the calls made for an incoming message; what notifyListeners
\* throws is caught by the handler's own try
onmessage(w, msg, raising) ==
    IF Accepted(msg)
    THEN [notifyListeners(w.listeners, raising) EXCEPT !.thrown = FALSE]
    ELSE NoCalls

\* nothing handed to the listeners: the task was not an incoming message
NoDelivery ==
    [msg |-> Null, calls |-> EmptyMap, raised |-> {}, thrown |-> FALSE,
     sent |-> << >>]

\* the record of the message handled and of the calls made for it
Delivery(msg, d) ==
    [msg |-> msg, calls |-> d.calls, raised |-> d.raised, thrown |-> d.thrown,
     sent |-> << >>]

\* payloads a caller hands to send: two objects, and an object with a cycle,
\* on which JSON.stringify raises a TypeError
Cyclic == [cyclic |-> TRUE]

Payloads == { [kind |-> "hello"], [kind |-> "ack"], Cyclic }

\* a send that does not look at the socket's state
sendAlways(w, b, data) ==
    [sent |-> << [socket |-> w.ws, frame |-> Json(data)] >>, thrown |-> FALSE]

\* send: the frames handed to the held socket, and whether the call raises
send(w, b, data) ==
    IF ReadyState(w, b) = "OPEN"
    THEN IF data = Cyclic
         THEN [sent |-> << >>, thrown |-> TRUE]
         ELSE [sent |-> << [socket |-> w.ws, frame |-> Json(data)] >>,
               thrown |-> FALSE]
    ELSE [sent |-> << >>, thrown |-> FALSE]

\* ----------------------------------------------------- HaterAideAnalysis
\* the preload effect: the Preloaded mapping built from reply_analyses
RECURSIVE PreloadFrom(_, _)
PreloadFrom(analyses, acc) ==
    IF analyses = << >> THEN acc
    ELSE LET analysis == Head(analyses)
             sentiment == analysis.sentiment
         IN  PreloadFrom(Tail(analyses),
                 IF sentiment = "harmful" \/ sentiment = "unfriendly"
                 THEN MapSet(acc, analysis.reply_id,
                          ModerationAction(analysis.reply_id,
                              IF sentiment = "harmful" THEN "hide" ELSE "blur",
                              << "Content flagged as", sentiment, "by AI analysis" >>,
                              sentiment))
                 ELSE acc)

\* a preload that does not test the sentiment: every analysis gets an entry
RECURSIVE PreloadAllFrom(_, _)
PreloadAllFrom(analyses, acc) ==
    IF analyses = << >> THEN acc
    ELSE LET analysis == Head(analyses)
         IN  PreloadAllFrom(Tail(analyses),
                 MapSet(acc, analysis.reply_id,
                     ModerationAction(analysis.reply_id,
                         IF analysis.sentiment = "harmful" THEN "hide" ELSE "blur",
                         << "Content flagged as", analysis.sentiment, "by AI analysis" >>,
                         analysis.sentiment)))

BuildPreloadedUnfiltered(analyses) == PreloadAllFrom(analyses, EmptyMap)

BuildPreloaded(analyses) == PreloadFrom(analyses, EmptyMap)

\* Array.prototype.find on reply_analyses: the first analysis of replyId
FindAnalysis(analyses, replyId) ==
    LET hits == { i \in 1..Len(analyses) : analyses[i].reply_id = replyId }
    IN  IF hits = {} THEN Null
        ELSE analyses[CHOOSE i \in hits : \A j \in hits : i <= j]

\* an updater that keeps the entry an id already has
LiveUpdateKeepFirst(prev, action) ==
    IF MapHas(prev, ReplyIdOf(action)) THEN prev
    ELSE MapSet(prev, ReplyIdOf(action), action)

\* an updater that drops the entry when the same action arrives again
LiveUpdateToggle(prev, action) ==
    IF MapGet(prev, ReplyIdOf(action)) = action
    THEN MapDelete(prev, ReplyIdOf(action))
    ELSE MapSet(prev, ReplyIdOf(action), action)

\* the subscription callback's updater: Map.set on a copy of prev
LiveUpdate(prev, action) == MapSet(prev, ReplyIdOf(action), action)

\* the moderation-status response handler's new Live mapping
SnapshotToLive(prev, body) ==
    IF "moderation_actions" \in DOMAIN body
    THEN body.moderation_actions
    ELSE prev

\* a resolver that consults the Preloaded layer before the Live layer
ResolveInfoPreloadedFirst(live, preloaded, results, replyId) ==
    IF MapGet(preloaded, replyId) # Null THEN MapGet(preloaded, replyId)
    ELSE IF MapGet(live, replyId) # Null THEN MapGet(live, replyId)
    ELSE Null

\* getReplyModerationInfo, on given layers
ResolveInfo(live, preloaded, results, replyId) ==
    IF MapGet(live, replyId) # Null THEN MapGet(live, replyId)
    ELSE IF MapGet(preloaded, replyId) # Null THEN MapGet(preloaded, replyId)
    ELSE IF results = Null THEN Null
    ELSE LET replyAnalysis == FindAnalysis(results.reply_analyses, replyId)
             actions == IF replyAnalysis = Null THEN << >>
                        ELSE replyAnalysis.moderation_actions
         IN  IF Len(actions) > 0 THEN actions[1] ELSE Null

getReplyModerationInfo(replyId) ==
    ResolveInfo(moderationActions, preloadedModerations, replyAnalysisResults, replyId)

ModerationType(moderation) ==
    IF moderation = Null THEN Absent
    ELSE IF "action_type" \in DOMAIN moderation THEN moderation.action_type
    ELSE Absent

shouldModerateContent(replyId) == ModerationType(getReplyModerationInfo(replyId))

\* ----------------------------------------------------------------- Reply
\* getReplySentiment of Reply.tsx: 'unknown' without analysis data, without
\* an analysis of the reply, or without a sentiment in it
ReplySentiment(data, replyId) ==
    IF data = Null \/ "reply_analyses" \notin DOMAIN data THEN "unknown"
    ELSE LET replyAnalysis == FindAnalysis(data.reply_analyses, replyId)
         IN  IF replyAnalysis = Null THEN "unknown"
             ELSE IF replyAnalysis.sentiment = Absent THEN "unknown"
             ELSE replyAnalysis.sentiment

\* moderationType: moderationAction?.action_type || the sentiment's default
ReplyModerationType(action, sentiment) ==
    IF action # Null /\ action.action_type # ""
    THEN action.action_type
    ELSE IF sentiment = "harmful" THEN "hide"
    ELSE IF sentiment = "unfriendly" THEN "blur"
    ELSE Absent

HarmfulReason == "This content contains harmful or hateful language"

UnfriendlyReason == "This content may be negative or dismissive"

\* moderationReason: moderationAction?.reason || the sentiment's reason
ReplyModerationReason(action, sentiment) ==
    IF action # Null /\ action.reason # ""
    THEN action.reason
    ELSE IF sentiment = "harmful" THEN HarmfulReason
    ELSE IF sentiment = "unfriendly" THEN UnfriendlyReason
    ELSE ""

\* the hidden branch of the render
ReplyRendersHidden(r, action, sentiment, revealed) ==
    r.hidden \/ (ReplyModerationType(action, sentiment) = "hide" /\ ~revealed)

\* a callback that stores the action and leaves the reveal flags
ReplyOnUpdateKeepsReveal(r, action, contentRevealed, mediaRevealed, updateAction) ==
    [moderationAction |-> IF ReplyIdOf(updateAction) = r.id THEN updateAction ELSE action,
     isContentRevealed |-> contentRevealed,
     isMediaRevealed |-> mediaRevealed]

\* the subscription callback of Reply
ReplyOnUpdate(r, action, contentRevealed, mediaRevealed, updateAction) ==
    IF ReplyIdOf(updateAction) = r.id
    THEN [moderationAction |-> updateAction, isContentRevealed |-> FALSE,
          isMediaRevealed |-> FALSE]
    ELSE [moderationAction |-> action, isContentRevealed |-> contentRevealed,
          isMediaRevealed |-> mediaRevealed]

ReplyCb == "setModerationAction"

\* `reply-${reply.id}`
ReplySub(r) == IF r.id = "r1" THEN "reply-r1" ELSE "reply-r2"

\* ---------------------------------------------------------------- Init
Init ==
    /\ wsService = [ws |-> 0, reconnectTimer |-> 0, listeners |-> EmptyMap,
                    isConnecting |-> FALSE]
    /\ browser = [sockets |-> [s \in SocketIds |-> "CLOSED"], timers |-> {},
                  delay |-> EmptyMap]
    /\ currentView = "feed"
    /\ selectedPost = Null
    /\ replyAnalysisResults = Null
    /\ hasLoadedInitialAnalysis = FALSE
    /\ enableInFlight = [initial |-> 0, run |-> 0]
    /\ replyAnalysisData = Null
    /\ moderationActions = EmptyMap
    /\ preloadedModerations = EmptyMap
    /\ statusFetch = "idle"
    /\ loadFetch = "idle"
    /\ reply = Null
    /\ replyData = Null
    /\ moderationAction = Null
    /\ isContentRevealed = FALSE
    /\ isMediaRevealed = FALSE
    /\ disconnectCalled = FALSE
    /\ delivery = NoDelivery

\* the view's subscription id and its callback
AnalysisSub == "hateraide-analysis"

AnalysisCb == "setModerationActions"

Mounted == currentView = "analysis"

\* ------------------------------------------------------------------ App
\* the user enables HaterAide on a post of the feed: the view switches and
\* HaterAideAnalysis mounts with fresh state; its effects connect and
\* subscribe to the channel and issue the snapshot and the batch fetches
handleEnableHaterAide(post, throws) ==
    /\ currentView = "feed"
    /\ enableInFlight.initial + enableInFlight.run < MaxInFlight
    /\ CanConnect(wsService, browser, throws)
    /\ selectedPost' = post
    /\ currentView' = "analysis"
    /\ enableInFlight' = IF hasLoadedInitialAnalysis
                         THEN [enableInFlight EXCEPT !.run = @ + 1]
                         ELSE [enableInFlight EXCEPT !.initial = @ + 1]
    /\ LET c == connect(wsService, browser, throws)
       IN  /\ wsService' = subscribe(c.w, AnalysisSub, AnalysisCb)
           /\ browser' = c.b
    /\ replyAnalysisData' = Null
    /\ moderationActions' = EmptyMap
    /\ preloadedModerations' = EmptyMap
    /\ statusFetch' = "pending"
    /\ loadFetch' = "pending"
    /\ UNCHANGED << replyAnalysisResults, hasLoadedInitialAnalysis, replyVars >>
    /\ delivery' = NoDelivery
    /\ disconnectCalled' = FALSE

\* the "cheat loading" fetch of /reply_analyzer_results.json answers; the
\* handler goes on to call runHaterAideAnalysis
InitialFetchDone(ok, body) ==
    /\ enableInFlight.initial > 0
    /\ enableInFlight' = [initial |-> enableInFlight.initial - 1,
                          run |-> enableInFlight.run + 1]
    /\ replyAnalysisResults' = IF ok THEN body ELSE replyAnalysisResults
    /\ hasLoadedInitialAnalysis' = TRUE
    /\ UNCHANGED << chanVars, viewVars, replyVars, currentView, selectedPost >>
    /\ delivery' = NoDelivery
    /\ UNCHANGED disconnectCalled

\* runHaterAideAnalysis answers (ok) or throws
RunAnalysisDone(ok, body) ==
    /\ enableInFlight.run > 0
    /\ enableInFlight' = [enableInFlight EXCEPT !.run = @ - 1]
    /\ replyAnalysisResults' = IF ok THEN body ELSE replyAnalysisResults
    /\ UNCHANGED << chanVars, viewVars, replyVars, currentView, selectedPost,
                    hasLoadedInitialAnalysis >>
    /\ delivery' = NoDelivery
    /\ UNCHANGED disconnectCalled

\* a Back that keeps the Live mapping of the view it leaves
onBackKeepsLive ==
    /\ currentView = "analysis"
    /\ currentView' = "feed"
    /\ selectedPost' = Null
    /\ replyAnalysisResults' = Null
    /\ wsService' = unsubscribe(wsService, AnalysisSub)
    /\ replyAnalysisData' = Null
    /\ preloadedModerations' = EmptyMap
    /\ statusFetch' = "idle"
    /\ loadFetch' = "idle"
    /\ delivery' = NoDelivery
    /\ UNCHANGED << browser, hasLoadedInitialAnalysis, enableInFlight, replyVars,
                    moderationActions, disconnectCalled >>

\* Back: the view returns to the feed; HaterAideAnalysis unmounts, its
\* cleanup unsubscribes, its state and its pending fetches are dropped
onBack ==
    /\ currentView = "analysis"
    /\ currentView' = "feed"
    /\ selectedPost' = Null
    /\ replyAnalysisResults' = Null
    /\ wsService' = unsubscribe(wsService, AnalysisSub)
    /\ replyAnalysisData' = Null
    /\ moderationActions' = EmptyMap
    /\ preloadedModerations' = EmptyMap
    /\ statusFetch' = "idle"
    /\ loadFetch' = "idle"
    /\ UNCHANGED << browser, hasLoadedInitialAnalysis, enableInFlight, replyVars >>
    /\ delivery' = NoDelivery
    /\ UNCHANGED disconnectCalled

\* ----------------------------------------------------- HaterAideAnalysis
\* GET /api/moderation-status answers with a JSON body, or fails
StatusFetchDone(ok, body) ==
    /\ statusFetch = "pending"
    /\ statusFetch' = "done"
    /\ moderationActions' = IF ok THEN SnapshotToLive(moderationActions, body)
                            ELSE moderationActions
    /\ UNCHANGED << chanVars, appVars, replyVars, replyAnalysisData,
                    preloadedModerations, loadFetch >>
    /\ delivery' = NoDelivery
    /\ UNCHANGED disconnectCalled

\* outcome of one fetch of loadAnalysisData's batch: an OK response with a
\* JSON body, a non-OK status, a network failure, an OK response whose body
\* does not parse
FetchOutcomes == {"ok", "status", "network", "body"}

\* a loadAnalysisData that does not test replyRes.ok
ReplyDataStoredAnyStatus(sentimentRes, replyRes, nextStepsRes) ==
    /\ "network" \notin {sentimentRes, replyRes, nextStepsRes}
    /\ sentimentRes # "body"
    /\ replyRes \in {"ok", "status"}

\* loadAnalysisData reaches setReplyAnalysisData: Promise.all resolved, the
\* sentiment body (read first) parsed if it was read, the reply response is
\* OK and parses
ReplyDataStored(sentimentRes, replyRes, nextStepsRes) ==
    /\ "network" \notin {sentimentRes, replyRes, nextStepsRes}
    /\ sentimentRes # "body"
    /\ replyRes = "ok"

\* a reply file without reply_analyzer_results
NoResults == [other |-> TRUE]

LoadBodies == FilePayloads \cup {NoResults}

\* the preload effect's guard and result for a new replyAnalysisData
PreloadEffect(data, preloaded) ==
    IF data # Null /\ "reply_analyses" \in DOMAIN data
    THEN BuildPreloaded(data.reply_analyses)
    ELSE preloaded

\* the batch of loadAnalysisData settles; the preload effect runs when
\* replyAnalysisData changed
LoadAnalysisDone(sentimentRes, replyRes, nextStepsRes, body) ==
    /\ loadFetch = "pending"
    /\ loadFetch' = "done"
    /\ IF ReplyDataStored(sentimentRes, replyRes, nextStepsRes)
       THEN /\ replyAnalysisData' = body
            /\ preloadedModerations' = PreloadEffect(body, preloadedModerations)
       ELSE UNCHANGED << replyAnalysisData, preloadedModerations >>
    /\ UNCHANGED << chanVars, appVars, replyVars, moderationActions, statusFetch >>
    /\ delivery' = NoDelivery
    /\ UNCHANGED disconnectCalled

\* ------------------------------------------------------- channel events
SocketOpen(s) ==
    /\ browser.sockets[s] = "CONNECTING"
    /\ LET c == onopen(wsService, [browser EXCEPT !.sockets[s] = "OPEN"])
       IN  wsService' = c.w /\ browser' = c.b
    /\ UNCHANGED << appVars, viewVars, replyVars >>
    /\ delivery' = NoDelivery
    /\ UNCHANGED disconnectCalled

\* the connection fails: the socket is closed, error then close are fired
SocketError(s) ==
    /\ browser.sockets[s] \in {"CONNECTING", "OPEN"}
    /\ LET e == onerror(wsService, [browser EXCEPT !.sockets[s] = "CLOSED"])
           c == onclose(e.w, e.b)
       IN  wsService' = c.w /\ browser' = c.b
    /\ UNCHANGED << appVars, viewVars, replyVars >>
    /\ delivery' = NoDelivery
    /\ UNCHANGED disconnectCalled

\* the closing handshake ends, started by the peer or by close()
SocketClose(s) ==
    /\ browser.sockets[s] \in {"OPEN", "CLOSING"}
    /\ LET c == onclose(wsService, [browser EXCEPT !.sockets[s] = "CLOSED"])
       IN  wsService' = c.w /\ browser' = c.b
    /\ UNCHANGED << appVars, viewVars, replyVars >>
    /\ delivery' = NoDelivery
    /\ UNCHANGED disconnectCalled

\* subscription ids and callbacks of other users of the channel
ClientSubs == {"client-1", "client-2"}

ClientCbs == {"callback-1", "callback-2"}

\* the subscription ids whose callback raises when called with the message:
\* Reply's callback reads update.action.reply_id and raises a TypeError
\* when the update has no action; the view's callback only queues an
\* updater; raising names the other users' callbacks that raise
RaisingOn(listeners, msg, raising) ==
    raising \cup { id \in DOMAIN listeners :
                     /\ listeners[id] = ReplyCb
                     /\ msg.text = "json"
                     /\ "action" \notin DOMAIN msg.value }

\* onmessage, with the listeners' effects. The updater queued by the view's
\* callback runs in the render that follows: on an update without action
\* it raises there, and React, without an error boundary, unmounts the
\* whole tree (the effect cleanups run, pending continuations find no
\* component)
SocketMessage(s, msg, raising) ==
    /\ browser.sockets[s] = "OPEN"
    /\ raising \subseteq { id \in DOMAIN wsService.listeners :
                              wsService.listeners[id] \in ClientCbs }
    /\ LET d == onmessage(wsService, msg,
                          RaisingOn(wsService.listeners, msg, raising))
           toView == /\ Mounted
                     /\ \E id \in DOMAIN d.calls : wsService.listeners[id] = AnalysisCb
           toReply == /\ reply # Null
                      /\ \E id \in (DOMAIN d.calls) \ d.raised :
                             wsService.listeners[id] = ReplyCb
       IN  /\ delivery' = Delivery(msg, d)
           /\ IF toView /\ "action" \notin DOMAIN msg.value
              THEN /\ currentView' = "crashed"
                   /\ selectedPost' = Null
                   /\ replyAnalysisResults' = Null
                   /\ enableInFlight' = [initial |-> 0, run |-> 0]
                   /\ wsService' = unsubscribe(wsService, AnalysisSub)
                   /\ replyAnalysisData' = Null
                   /\ moderationActions' = EmptyMap
                   /\ preloadedModerations' = EmptyMap
                   /\ statusFetch' = "idle"
                   /\ loadFetch' = "idle"
                   /\ UNCHANGED hasLoadedInitialAnalysis
              ELSE /\ moderationActions' =
                          IF toView THEN LiveUpdate(moderationActions, msg.value.action)
                          ELSE moderationActions
                   /\ UNCHANGED << wsService, appVars, replyAnalysisData,
                                   preloadedModerations, statusFetch, loadFetch >>
           /\ IF toReply
              THEN LET r == ReplyOnUpdate(reply, moderationAction, isContentRevealed,
                                          isMediaRevealed, msg.value.action)
                   IN  /\ moderationAction' = r.moderationAction
                       /\ isContentRevealed' = r.isContentRevealed
                       /\ isMediaRevealed' = r.isMediaRevealed
              ELSE UNCHANGED << moderationAction, isContentRevealed, isMediaRevealed >>
    /\ UNCHANGED << browser, reply, replyData, disconnectCalled >>

\* the reconnect timeout fires and calls connect()
TimerFire(t, throws) ==
    /\ t \in browser.timers
    /\ LET b == ClearTimeout(browser, t)
       IN  /\ CanConnect(wsService, b, throws)
           /\ LET c == connect(wsService, b, throws)
              IN  wsService' = c.w /\ browser' = c.b
    /\ UNCHANGED << appVars, viewVars, replyVars >>
    /\ delivery' = NoDelivery
    /\ UNCHANGED disconnectCalled

\* wsService.connect() called while the channel is in any state
Connect(throws) ==
    /\ CanConnect(wsService, browser, throws)
    /\ LET c == connect(wsService, browser, throws)
       IN  wsService' = c.w /\ browser' = c.b
    /\ UNCHANGED << appVars, viewVars, replyVars >>
    /\ delivery' = NoDelivery
    /\ disconnectCalled' = FALSE

Disconnect ==
    /\ LET c == disconnect(wsService, browser)
       IN  wsService' = c.w /\ browser' = c.b
    /\ UNCHANGED << appVars, viewVars, replyVars >>
    /\ delivery' = NoDelivery
    /\ disconnectCalled' = TRUE

Subscribe(id, callback) ==
    /\ wsService' = subscribe(wsService, id, callback)
    /\ UNCHANGED << browser, appVars, viewVars, replyVars >>
    /\ delivery' = NoDelivery
    /\ UNCHANGED disconnectCalled

Unsubscribe(id) ==
    /\ wsService' = unsubscribe(wsService, id)
    /\ UNCHANGED << browser, appVars, viewVars, replyVars >>
    /\ delivery' = NoDelivery
    /\ UNCHANGED disconnectCalled

\* wsService.send(data) called while the channel is in any state
Send(data) ==
    /\ LET r == send(wsService, browser, data)
       IN  delivery' = [NoDelivery EXCEPT !.sent = r.sent, !.thrown = r.thrown]
    /\ UNCHANGED << chanVars, appVars, viewVars, replyVars, disconnectCalled >>

\* ----------------------------------------------------------------- Reply
Replies == UNION { { p.replies[i] : i \in 1..Len(p.replies) } : p \in Posts }

\* a Reply mounts with its props; its effect subscribes
MountReply(r, data) ==
    /\ reply = Null
    /\ reply' = r
    /\ replyData' = data
    /\ moderationAction' = Null
    /\ isContentRevealed' = FALSE
    /\ isMediaRevealed' = FALSE
    /\ wsService' = subscribe(wsService, ReplySub(r), ReplyCb)
    /\ UNCHANGED << browser, appVars, viewVars >>
    /\ delivery' = NoDelivery
    /\ UNCHANGED disconnectCalled

UnmountReply ==
    /\ reply # Null
    /\ wsService' = unsubscribe(wsService, ReplySub(reply))
    /\ reply' = Null
    /\ replyData' = Null
    /\ moderationAction' = Null
    /\ isContentRevealed' = FALSE
    /\ isMediaRevealed' = FALSE
    /\ UNCHANGED << browser, appVars, viewVars >>
    /\ delivery' = NoDelivery
    /\ UNCHANGED disconnectCalled

\* a reveal that also drops the stored action
RevealContentClearsAction ==
    /\ reply # Null
    /\ LET type == ReplyModerationType(moderationAction,
                       ReplySentiment(replyData, reply.id))
       IN  \/ ReplyRendersHidden(reply, moderationAction,
                  ReplySentiment(replyData, reply.id), isContentRevealed)
           \/ type = "blur" /\ ~isContentRevealed
    /\ isContentRevealed' = TRUE
    /\ moderationAction' = Null
    /\ delivery' = NoDelivery
    /\ UNCHANGED << chanVars, appVars, viewVars, reply, replyData,
                    isMediaRevealed, disconnectCalled >>

\* "Show anyway" (confirmed) in the hidden branch, or a click on blurred text
RevealContent ==
    /\ reply # Null
    /\ LET type == ReplyModerationType(moderationAction,
                       ReplySentiment(replyData, reply.id))
       IN  \/ ReplyRendersHidden(reply, moderationAction,
                  ReplySentiment(replyData, reply.id), isContentRevealed)
           \/ type = "blur" /\ ~isContentRevealed
    /\ isContentRevealed' = TRUE
    /\ UNCHANGED << chanVars, appVars, viewVars, reply, replyData,
                    moderationAction, isMediaRevealed >>
    /\ delivery' = NoDelivery
    /\ UNCHANGED disconnectCalled

\* a click on moderated media
RevealMedia ==
    /\ reply # Null
    /\ ~ReplyRendersHidden(reply, moderationAction,
            ReplySentiment(replyData, reply.id), isContentRevealed)
    /\ ReplyModerationType(moderationAction,
           ReplySentiment(replyData, reply.id)) # Absent
    /\ ~isMediaRevealed
    /\ isMediaRevealed' = TRUE
    /\ UNCHANGED << chanVars, appVars, viewVars, reply, replyData,
                    moderationAction, isContentRevealed >>
    /\ delivery' = NoDelivery
    /\ UNCHANGED disconnectCalled

\* ------------------------------------------------------------------ Spec
\* the application: App, HaterAideAnalysis and the channel as they use it
Next ==
    \/ \E post \in Posts, throws \in BOOLEAN : handleEnableHaterAide(post, throws)
    \/ \E ok \in BOOLEAN, body \in FilePayloads : InitialFetchDone(ok, body)
    \/ \E ok \in BOOLEAN, body \in FilePayloads : RunAnalysisDone(ok, body)
    \/ onBack
    \/ \E ok \in BOOLEAN, body \in SnapshotBodies : StatusFetchDone(ok, body)
    \/ \E o1, o2, o3 \in FetchOutcomes :
           \E body \in (IF ReplyDataStored(o1, o2, o3) THEN LoadBodies ELSE {NoResults}) :
               LoadAnalysisDone(o1, o2, o3, body)
    \/ \E s \in SocketIds : SocketOpen(s)
    \/ \E s \in SocketIds : SocketError(s)
    \/ \E s \in SocketIds : SocketClose(s)
    \/ \E s \in SocketIds, msg \in WireMessages : SocketMessage(s, msg, {})
    \/ \E t \in browser.timers, throws \in BOOLEAN : TimerFire(t, throws)

Spec == Init /\ [][Next]_vars

\* the application, with the browser firing every timeout that stays pending
SpecLive ==
    Spec /\ WF_vars(\E t \in browser.timers, throws \in BOOLEAN : TimerFire(t, throws))

\* the channel under any use of its interface
NextChannel ==
    \/ \E throws \in BOOLEAN : Connect(throws)
    \/ Disconnect
    \/ \E id \in ClientSubs, callback \in ClientCbs : Subscribe(id, callback)
    \/ \E id \in ClientSubs : Unsubscribe(id)
    \/ \E data \in Payloads : Send(data)
    \/ \E s \in SocketIds : SocketOpen(s)
    \/ \E s \in SocketIds : SocketError(s)
    \/ \E s \in SocketIds : SocketClose(s)
    \/ \E s \in SocketIds, msg \in WireMessages, raising \in SUBSET ClientSubs :
           SocketMessage(s, msg, raising)
    \/ \E t \in browser.timers, throws \in BOOLEAN : TimerFire(t, throws)

SpecChannel == Init /\ [][NextChannel]_vars

\* a Reply component on the shared channel
NextReply ==
    \/ \E r \in Replies, data \in FilePayloads \cup {Null} : MountReply(r, data)
    \/ UnmountReply
    \/ RevealContent
    \/ RevealMedia
    \/ \E s \in SocketIds : SocketOpen(s)
    \/ \E s \in SocketIds : SocketError(s)
    \/ \E s \in SocketIds : SocketClose(s)
    \/ \E s \in SocketIds, msg \in WireMessages : SocketMessage(s, msg, {})
    \/ \E t \in browser.timers, throws \in BOOLEAN : TimerFire(t, throws)
    \/ \E throws \in BOOLEAN : Connect(throws)
    \/ Disconnect

SpecReply == Init /\ [][NextReply]_vars

\* the analysis view's fetches alone, over every reply_analyses list of at
\* most MaxAnalyses entries
NextPreload ==
    \/ \E post \in Posts : handleEnableHaterAide(post, FALSE)
    \/ \E ok \in BOOLEAN, body \in FilePayloads : InitialFetchDone(ok, body)
    \/ \E ok \in BOOLEAN, body \in FilePayloads : RunAnalysisDone(ok, body)
    \/ onBack
    \/ \E o1, o2, o3 \in FetchOutcomes :
           \E body \in (IF ReplyDataStored(o1, o2, o3)
                         THEN AllPayloads \cup {NoResults} ELSE {NoResults}) :
               LoadAnalysisDone(o1, o2, o3, body)

SpecPreload == Init /\ [][NextPreload]_vars

\* ---------------------------------------------------------------- claims
\* the synthesis rule: harmful -> hide, unfriendly -> blur, else none
DefaultType(sentiment) == ReplyModerationType(Null, sentiment)

SelectedReplies == { selectedPost.replies[i] : i \in 1..Len(selectedPost.replies) }

\* C1 (P1, precedence): in every reachable state, for every item id with an
\* entry in both the Live and the Preloaded mapping, getReplyModerationInfo
\* returns the Live entry and shouldModerateContent its action_type.
P1_LiveOverridesPreloaded ==
    \A id \in ReplyIds :
        (MapHas(moderationActions, id) /\ MapHas(preloadedModerations, id))
            => /\ getReplyModerationInfo(id) = moderationActions[id]
               /\ shouldModerateContent(id) = moderationActions[id].action_type

\* a Live hide on an item whose Preloaded entry says blur
P1_Witness ==
    \E id \in ReplyIds :
        /\ MapHas(moderationActions, id) /\ MapHas(preloadedModerations, id)
        /\ moderationActions[id].action_type = "hide"
        /\ preloadedModerations[id].action_type = "blur"
        /\ shouldModerateContent(id) = "hide"

\* C2 (P2, default synthesis): for every reply of the shown post with no Live
\* and no Preloaded entry, the resolver's decision is hide when the reply's
\* own sentiment is harmful, blur when it is unfriendly, none otherwise.
P2_DefaultSynthesis ==
    Mounted =>
        \A r \in SelectedReplies :
            (~MapHas(moderationActions, r.id) /\ ~MapHas(preloadedModerations, r.id))
                => shouldModerateContent(r.id) = DefaultType(r.sentiment)

\* C3: a reply whose own data has hidden = true resolves to hide, whatever
\* the Live, Preloaded and sentiment layers hold.
C3_HiddenAlwaysHides ==
    Mounted =>
        \A r \in SelectedReplies : r.hidden => shouldModerateContent(r.id) = "hide"

\* C4 (single source): the decision a Reply renders takes its type and its
\* reason from one source: both from the Live action when there is one,
\* both from the sentiment otherwise.
C4_SingleSourceDecision ==
    reply # Null =>
        LET sentiment == ReplySentiment(replyData, reply.id)
            type == ReplyModerationType(moderationAction, sentiment)
            reason == ReplyModerationReason(moderationAction, sentiment)
        IN  IF moderationAction # Null
            THEN type = moderationAction.action_type /\ reason = moderationAction.reason
            ELSE type = DefaultType(sentiment)
                 /\ reason = ReplyModerationReason(Null, sentiment)

\* C5 (last-write-wins): the updater applied to any reachable Live mapping
\* makes the entry of the update's reply_id equal to its action and leaves
\* every other entry as it was; each push update processed by the view's
\* callback changes the Live mapping that way.
C5_LastWriteWins ==
    /\ [](\A a \in PushActions :
             LET after == LiveUpdate(moderationActions, a)
             IN  /\ MapGet(after, a.reply_id) = a
                 /\ \A id \in ReplyIds \ {a.reply_id} :
                        MapGet(after, id) = MapGet(moderationActions, id))
    /\ [][\A s \in SocketIds, a \in PushActions :
             (/\ SocketMessage(s, Json([type |-> "content_moderation", action |-> a]), {})
              /\ Mounted
              /\ MapGet(wsService.listeners, AnalysisSub) = AnalysisCb)
             => /\ MapGet(moderationActions', a.reply_id) = a
                /\ \A id \in ReplyIds \ {a.reply_id} :
                       MapGet(moderationActions', id) = MapGet(moderationActions, id)]_vars

\* both ids updated by pushes, r1 by the blur update and r2 by the hide update
C5_Witness ==
    /\ MapHas(moderationActions, "r1") /\ MapHas(moderationActions, "r2")
    /\ moderationActions["r1"] = ModerationAction("r1", "blur", "", "unfriendly")
    /\ moderationActions["r2"] = ModerationAction("r2", "hide", "Flagged by moderator", "harmful")

\* C6 (P3, idempotent replace): from every reachable store state, processing
\* the same update twice gives the Live mapping, and the resolver results,
\* that processing it once gives.
P3_IdempotentReplace ==
    \A a \in PushActions :
        LET once == LiveUpdate(moderationActions, a)
            twice == LiveUpdate(once, a)
        IN  /\ twice = once
            /\ \A id \in ReplyIds :
                   ResolveInfo(twice, preloadedModerations, replyAnalysisResults, id)
                   = ResolveInfo(once, preloadedModerations, replyAnalysisResults, id)

\* an update has been processed once: its action is the Live entry, beside
\* another item's entry, and processing it again changes nothing
P3_Witness ==
    \E a \in PushActions :
        /\ MapGet(moderationActions, a.reply_id) = a
        /\ DOMAIN moderationActions = ReplyIds
        /\ LiveUpdate(moderationActions, a) = moderationActions

\* C7: when the snapshot response is processed, every snapshot entry is in
\* the Live mapping and every entry a push had put there for an id absent
\* from the snapshot is still there.
C7_SnapshotMerged ==
    [][\A body \in SnapshotBodies :
          (StatusFetchDone(TRUE, body) /\ "moderation_actions" \in DOMAIN body)
          => /\ \A id \in DOMAIN body.moderation_actions :
                    MapGet(moderationActions', id) = body.moderation_actions[id]
             /\ \A id \in (DOMAIN moderationActions) \ (DOMAIN body.moderation_actions) :
                    MapGet(moderationActions', id) = moderationActions[id]]_vars

FlaggedAnalyses(analyses, id) ==
    { i \in 1..Len(analyses) :
        /\ analyses[i].reply_id = id
        /\ analyses[i].sentiment \in {"harmful", "unfriendly"} }

\* C8: the Preloaded mapping built from a payload has an entry for reply_id
\* r exactly when the payload has an analysis of r with sentiment harmful or
\* unfriendly; the entry is the action of such an analysis, hide for harmful
\* and blur for unfriendly.
C8_PreloadedFromPayload ==
    (Mounted /\ replyAnalysisData # Null /\ "reply_analyses" \in DOMAIN replyAnalysisData)
    => \A id \in ReplyIds :
           LET analyses == replyAnalysisData.reply_analyses
               flagged == FlaggedAnalyses(analyses, id)
           IN  /\ MapHas(preloadedModerations, id) <=> flagged # {}
               /\ MapHas(preloadedModerations, id) =>
                      \E i \in flagged :
                          /\ preloadedModerations[id].reply_id = id
                          /\ preloadedModerations[id].sentiment = analyses[i].sentiment
                          /\ preloadedModerations[id].action_type =
                                 IF analyses[i].sentiment = "harmful" THEN "hide" ELSE "blur"

\* a payload with a harmful r1 and a friendly r2: an entry for r1 alone
C8_Witness ==
    /\ Mounted /\ replyAnalysisData # Null
    /\ "reply_analyses" \in DOMAIN replyAnalysisData
    /\ \E i, j \in 1..Len(replyAnalysisData.reply_analyses) :
           /\ replyAnalysisData.reply_analyses[i] = Analysis("r1", "harmful", << >>)
           /\ replyAnalysisData.reply_analyses[j] = Analysis("r2", "friendly", << >>)
    /\ DOMAIN preloadedModerations = {"r1"}
    /\ preloadedModerations["r1"].action_type = "hide"

\* the resolver's result without the Live and Preloaded layers
ThirdLayer(results, id) == ResolveInfo(EmptyMap, EmptyMap, results, id)

P5_ConnectSingleFlight ==
    [][(Connect(FALSE) /\ ReadyState(wsService, browser) \in {"OPEN", "CONNECTING"})
          => UNCHANGED chanVars]_vars

\* C11: when the channel has handled the error and close events of a failed
\* connection, or a close event, and disconnect() has not been called,
\* exactly one reconnect timer is pending, the one the service holds, set
\* with the delay of 5000 ms.
C11_ReconnectScheduled ==
    [][\A s \in SocketIds :
          ((SocketError(s) \/ SocketClose(s)) /\ ~disconnectCalled)
          => /\ Cardinality(browser'.timers) = 1
             /\ browser'.timers = {wsService'.reconnectTimer}
             /\ browser'.delay[wsService'.reconnectTimer] = 5000]_vars

\* the held socket has closed, disconnect() was not called, a reconnect is
\* pending
C11_Witness ==
    /\ ~disconnectCalled
    /\ ReadyState(wsService, browser) = "CLOSED"
    /\ browser.timers = {wsService.reconnectTimer}
    /\ browser.delay[wsService.reconnectTimer] = 5000

\* C12: in every reachable state of the channel, under any interleaving of
\* connect(), disconnect(), socket events and timer firings, at most one
\* reconnect timer is pending, and it is the one the service holds.
C12_AtMostOneTimer ==
    /\ Cardinality(browser.timers) <= 1
    /\ browser.timers \subseteq {wsService.reconnectTimer}

\* a reconnect is pending while two sockets are alive, whose close events
\* will each schedule a reconnect
C12_Witness ==
    /\ browser.timers # {}
    /\ \A s \in SocketIds : browser.sockets[s] # "CLOSED"

\* C13: disconnect(), from any channel state, leaves no pending reconnect
\* timer, no held connection (ws = null, the socket that was held closing
\* or closed) and an empty registry.
C13_DisconnectPostcondition ==
    [][Disconnect
          => /\ browser'.timers = {}
             /\ wsService'.reconnectTimer = 0
             /\ wsService'.ws = 0
             /\ wsService.ws # 0 =>
                    browser'.sockets[wsService.ws] \in {"CLOSING", "CLOSED"}
             /\ wsService'.listeners = EmptyMap]_vars

\* disconnect() has just been called on a channel that was open: the
\* socket is closing, nothing is held, pending or registered
C13_Witness ==
    /\ disconnectCalled
    /\ wsService.ws = 0
    /\ \E s \in SocketIds : browser.sockets[s] = "CLOSING"
    /\ browser.timers = {}
    /\ wsService.listeners = EmptyMap

\* C14: after disconnect(), and until connect() is called again, no step
\* schedules a reconnect timer and no step starts a connection attempt.
C14_DisconnectEndsReconnectLoop ==
    [][(disconnectCalled /\ disconnectCalled')
          => /\ browser'.timers \subseteq browser.timers
             /\ \A s \in SocketIds :
                    browser'.sockets[s] = "CONNECTING"
                        => browser.sockets[s] = "CONNECTING"]_vars

\* the connection is down: the held socket has closed, or no socket could
\* be constructed and a reconnect is pending
ConnectionDown ==
    \/ ReadyState(wsService, browser) = "CLOSED"
    \/ wsService.ws = 0 /\ browser.timers # {}

\* C15 (indefinite retry): in the application, which calls connect() and
\* never disconnect(), whenever the connection is down a connection attempt
\* follows (the held socket is connecting or open again), after any number
\* of failures, provided the pending timer fires.
C15_IndefiniteRetry ==
    ConnectionDown ~> (ReadyState(wsService, browser) \in {"CONNECTING", "OPEN"})

\* the connection of the shown view is down and its reconnect is pending
C15_Witness ==
    /\ Mounted
    /\ ~disconnectCalled
    /\ ReadyState(wsService, browser) = "CLOSED"
    /\ browser.timers = {wsService.reconnectTimer}

\* one call for each id of a registry
OnceEach(listeners) == [id \in DOMAIN listeners |-> 1]

\* C16: subscribe(id, cb) leaves a registry that maps id to cb and every
\* other id to what it was mapped to; when id was registered the registry
\* does not grow, and a valid update then calls, under id, cb alone, once.
C16_SubscribeReplaces ==
    /\ [](\A id \in ClientSubs, cb \in ClientCbs :
             LET after == subscribe(wsService, id, cb)
             IN  /\ MapGet(after.listeners, id) = cb
                 /\ DOMAIN after.listeners = (DOMAIN wsService.listeners) \cup {id}
                 /\ \A other \in (DOMAIN wsService.listeners) \ {id} :
                        after.listeners[other] = wsService.listeners[other]
                 /\ MapHas(wsService.listeners, id) =>
                        Cardinality(DOMAIN after.listeners)
                        = Cardinality(DOMAIN wsService.listeners)
                 /\ \A msg \in ValidMessages :
                        onmessage(after, msg, {}).calls = OnceEach(after.listeners))
    /\ [][\A id \in ClientSubs, cb \in ClientCbs :
             Subscribe(id, cb)
             => /\ wsService'.listeners[id] = cb
                /\ DOMAIN wsService'.listeners = (DOMAIN wsService.listeners) \cup {id}
                /\ browser' = browser]_vars

\* client-1 carries callback-2 beside client-2, and a valid update has
\* called each id once
C16_Witness ==
    /\ DOMAIN wsService.listeners = ClientSubs
    /\ wsService.listeners["client-1"] = "callback-2"
    /\ wsService.listeners["client-2"] = "callback-1"
    /\ delivery.msg \in ValidMessages
    /\ delivery.calls = OnceEach(wsService.listeners)

\* C17: unsubscribe(id) leaves a registry without id, in which no valid
\* update calls a callback under id, and changes nothing else; when id is
\* not registered the channel state is unchanged; an update calls
\* registered ids only.
C17_UnsubscribeRemoves ==
    /\ [](\A id \in ClientSubs :
             LET after == unsubscribe(wsService, id)
             IN  /\ ~MapHas(after.listeners, id)
                 /\ \A other \in (DOMAIN wsService.listeners) \ {id} :
                        MapGet(after.listeners, other) = wsService.listeners[other]
                 /\ ~MapHas(wsService.listeners, id) => after = wsService
                 /\ \A msg \in ValidMessages :
                        id \notin DOMAIN onmessage(after, msg, {}).calls)
    /\ [][/\ \A id \in ClientSubs :
                Unsubscribe(id)
                => /\ ~MapHas(wsService'.listeners, id)
                   /\ browser' = browser
                   /\ ~MapHas(wsService.listeners, id) => UNCHANGED chanVars
          /\ \A s \in SocketIds, msg \in WireMessages, raising \in SUBSET ClientSubs :
                SocketMessage(s, msg, raising)
                => DOMAIN delivery'.calls \subseteq DOMAIN wsService.listeners]_vars

\* a valid update delivered on an open socket to client-2 alone
C17_Witness ==
    /\ DOMAIN wsService.listeners = {"client-2"}
    /\ delivery.msg \in ValidMessages
    /\ delivery.calls = OnceEach(wsService.listeners)
    /\ ReadyState(wsService, browser) = "OPEN"

\* C18 (P4, isolation): a valid update calls every registered callback
\* exactly once, whichever of them raise; no error leaves the message
\* handler; the registry is unchanged, the raising callbacks included.
C18_ListenerIsolation ==
    [][\A s \in SocketIds, msg \in ValidMessages, raising \in SUBSET ClientSubs :
          SocketMessage(s, msg, raising)
          => /\ delivery'.calls = OnceEach(wsService.listeners)
             /\ delivery'.raised = raising
             /\ ~delivery'.thrown
             /\ wsService'.listeners = wsService.listeners]_vars

\* the callback of client-1 raised on a valid update; client-2 was called
\* once all the same and client-1 is still registered
C18_Witness ==
    /\ delivery.msg \in ValidMessages
    /\ delivery.raised = {"client-1"}
    /\ delivery.calls = OnceEach(wsService.listeners)
    /\ DOMAIN wsService.listeners = ClientSubs

\* C19 (P6, malformed message safety): an incoming message that does not
\* parse, or whose type is not content_moderation, calls no listener and
\* changes neither the channel state nor the view's mappings and decisions.
C19_NonConformingIgnored ==
    [][\A s \in SocketIds, msg \in NonConforming :
          SocketMessage(s, msg, {})
          => /\ delivery'.calls = EmptyMap
             /\ UNCHANGED << wsService, browser, currentView, moderationActions,
                             preloadedModerations, replyAnalysisResults >>
             /\ \A id \in ReplyIds :
                    ModerationType(ResolveInfo(moderationActions', preloadedModerations',
                                               replyAnalysisResults', id))
                    = shouldModerateContent(id)]_vars

\* a ping has been handled while the view is subscribed and holds a Live
\* entry
C19_Witness ==
    /\ delivery.msg = Json([type |-> "ping"])
    /\ delivery.calls = EmptyMap
    /\ Mounted
    /\ MapHas(wsService.listeners, AnalysisSub)
    /\ MapHas(moderationActions, "r1")

\* C20: a content_moderation message without an action, or with an action
\* without reply_id, calls no listener and changes no mapping and no
\* decision of the view.
C20_MalformedActionDiscarded ==
    [][\A s \in SocketIds, msg \in Malformed :
          SocketMessage(s, msg, {})
          => /\ delivery'.calls = EmptyMap
             /\ UNCHANGED << currentView, moderationActions, preloadedModerations,
                             replyAnalysisResults >>]_vars

\* C21: send(payload) hands the payload's JSON text to the held socket when
\* that socket is open; in every other state (no socket, connecting,
\* closing, closed) it hands over nothing and raises nothing; in no state
\* does it change the channel state.
C21_SendOnlyWhenOpen ==
    [][\A data \in Payloads :
          Send(data)
          => /\ UNCHANGED chanVars
             /\ IF ReadyState(wsService, browser) = "OPEN"
                THEN data # Cyclic =>
                        /\ delivery'.sent
                           = << [socket |-> wsService.ws, frame |-> Json(data)] >>
                        /\ ~delivery'.thrown
                ELSE delivery'.sent = << >> /\ ~delivery'.thrown]_vars

\* a payload has been handed to the open socket
C21_Witness ==
    /\ ReadyState(wsService, browser) = "OPEN"
    /\ delivery.sent = << [socket |-> wsService.ws, frame |-> Json([kind |-> "hello"])] >>

\* C22: the Live mapping is empty whenever the analysis view is not shown
\* and right after it is activated; from empty it gets an entry only when
\* a push update or a snapshot response is processed.
C22_LiveClearedPerSession ==
    /\ [](~Mounted => moderationActions = EmptyMap)
    /\ [][(\E post \in Posts, throws \in BOOLEAN : handleEnableHaterAide(post, throws))
             => moderationActions' = EmptyMap]_vars
    /\ [][(moderationActions = EmptyMap /\ moderationActions' # EmptyMap)
             => \/ \E s \in SocketIds, msg \in ValidMessages \cup Malformed :
                       SocketMessage(s, msg, {})
                \/ \E body \in SnapshotBodies : StatusFetchDone(TRUE, body)]_vars

\* the view has been activated a second time (two analysis requests are in
\* flight), its channel is open and its Live mapping is empty
C22_Witness ==
    /\ Mounted
    /\ enableInFlight.run >= 2
    /\ ReadyState(wsService, browser) = "OPEN"
    /\ moderationActions = EmptyMap

\* C23: a reveal of content or media in the Reply component changes the
\* reveal flags only: the Live and Preloaded mappings, the stored action
\* and the channel are unchanged, and the decision computed from the stored
\* action and the sentiment (type and reason) is the same before and after.
C23_RevealChangesFlagsOnly ==
    [][(RevealContent \/ RevealMedia)
          => /\ UNCHANGED << moderationActions, preloadedModerations,
                             moderationAction, reply, replyData, chanVars >>
             /\ ReplyModerationType(moderationAction', ReplySentiment(replyData', reply'.id))
                = ReplyModerationType(moderationAction, ReplySentiment(replyData, reply.id))
             /\ ReplyModerationReason(moderationAction', ReplySentiment(replyData', reply'.id))
                = ReplyModerationReason(moderationAction, ReplySentiment(replyData, reply.id))]_vars

\* content moderated by a pushed hide action has been revealed (a push
\* resets the flag, so the reveal came after it); the action is still stored
C23_Witness ==
    /\ reply # Null
    /\ moderationAction # Null
    /\ moderationAction.action_type = "hide"
    /\ isContentRevealed

\* C24: unsubscribe(id) leaves the held socket, the reconnect timer and the
\* connecting flag as they are; when the view, the last subscriber, is left
\* with Back, its cleanup's unsubscribe changes neither the sockets' ready
\* states nor the pending timers.
C24_UnsubscribeKeepsConnection ==
    /\ [](LET after == unsubscribe(wsService, AnalysisSub)
          IN  /\ after.ws = wsService.ws
              /\ after.reconnectTimer = wsService.reconnectTimer
              /\ after.isConnecting = wsService.isConnecting)
    /\ [][onBack
             => /\ browser' = browser
                /\ wsService'.ws = wsService.ws
                /\ wsService'.reconnectTimer = wsService.reconnectTimer
                /\ wsService'.isConnecting = wsService.isConnecting]_vars

\* the view has been left, nobody is subscribed, the connection is open
C24_Witness ==
    /\ currentView = "feed"
    /\ wsService.listeners = EmptyMap
    /\ ReadyState(wsService, browser) = "OPEN"

\* C25: right after the open event of a socket is handled no reconnect
\* timer is pending, the service holds none, and the connecting flag is
\* false.
C25_OpenCancelsTimer ==
    [][\A s \in SocketIds :
          SocketOpen(s)
          => /\ browser'.timers = {}
             /\ wsService'.reconnectTimer = 0
             /\ ~wsService'.isConnecting]_vars

\* the held socket is open after a reconnect: the other socket has been
\* used and closed, no timer is pending
C25_Witness ==
    /\ ReadyState(wsService, browser) = "OPEN"
    /\ wsService.ws = 2
    /\ browser.timers = {}
    /\ wsService.reconnectTimer = 0
    /\ ~wsService.isConnecting

\* C26: in every reachable state of the channel at most one socket is
\* connecting or open.
C26_AtMostOneLiveSocket ==
    Cardinality({ s \in SocketIds : browser.sockets[s] \in {"CONNECTING", "OPEN"} }) <= 1

\* C27: a connect() called after disconnect(), no connect() having been
\* called in between, starts a connection attempt: the service holds a
\* socket that is connecting.
C27_ConnectAfterDisconnect ==
    [][(Connect(FALSE) /\ disconnectCalled)
          => /\ wsService'.ws # 0
             /\ browser'.sockets[wsService'.ws] = "CONNECTING"
             /\ wsService'.isConnecting]_vars

\* C28: in a mounted, subscribed Reply, a valid push update for the
\* component's reply id becomes the stored action and sets both reveal
\* flags to false; an update for another id changes neither the stored
\* action nor the flags.
C28_PushResetsReveal ==
    [][\A s \in SocketIds, a \in PushActions :
          (/\ reply # Null
           /\ MapHas(wsService.listeners, ReplySub(reply))
           /\ SocketMessage(s, Json([type |-> "content_moderation", action |-> a]), {}))
          => IF a.reply_id = reply.id
             THEN /\ moderationAction' = a
                  /\ ~isContentRevealed'
                  /\ ~isMediaRevealed'
             ELSE UNCHANGED << moderationAction, isContentRevealed,
                               isMediaRevealed >>]_vars

\* the update just delivered to the Reply is its stored action, replacing
\* another one, and the content is moderated again
C28_Witness ==
    /\ reply # Null
    /\ delivery.msg \in ValidMessages
    /\ ReplySub(reply) \in DOMAIN delivery.calls
    /\ delivery.msg.value.action = moderationAction
    /\ moderationAction.action_type = "hide"
    /\ ~isContentRevealed /\ ~isMediaRevealed
    /\ ReplyRendersHidden(reply, moderationAction,
                          ReplySentiment(replyData, reply.id), isContentRevealed)

\* C29: a runHaterAideAnalysis request that completes while the feed is
\* shown, after Back, stores no result: replyAnalysisResults stays null.
C29_BackDropsInFlightAnalysis ==
    [][\A body \in FilePayloads :
          (RunAnalysisDone(TRUE, body) /\ currentView = "feed")
          => replyAnalysisResults' = Null]_vars

\* C30: when the reply-analysis fetch of the batch answers OK with a valid
\* payload, the Preloaded mapping is built from that payload, whatever the
\* outcomes of the general-sentiment and next-steps fetches.
C30_PreloadedDependsOnReplyFetchOnly ==
    [][\A o1, o3 \in FetchOutcomes, body \in FilePayloads :
          LoadAnalysisDone(o1, "ok", o3, body)
          => preloadedModerations' = BuildPreloaded(body.reply_analyses)]_vars

====
